---- MODULE Spec2Model ----
(***************************************************************************)
(* The Spot catalogue of src/main.go: one SQLite table of Spot rows behind *)
(* GORM, and the gin handlers that read and write it.  Every handler runs  *)
(* on its own goroutine, so the handlers that issue two statements         *)
(* (recommend: First then Save, update: First then Updates) are two steps  *)
(* with other requests free to run in between.  Handlers that issue one    *)
(* statement are one step.                                                 *)
(*                                                                         *)
(* Text is a sequence of one-character strings; a character outside ASCII  *)
(* is written by its code point ("u897f").  The empty string is << >>.     *)
(***************************************************************************)
EXTENDS Integers, Sequences, FiniteSets

VARIABLES
    table,       \* the spots table: present id -> Spot row
    seq,         \* sqlite_sequence of the AUTOINCREMENT primary key
    req,         \* per goroutine slot: where its handler stands, and its locals
    response,    \* the response written by the request that completed last
    main,        \* where main() stands: "start" before seeding, then "serving"
    held,        \* history: every id a row has ever held
    recommends   \* history: per id, the recommend requests whose First found it

vars == <<table, seq, req, response, main, held, recommends>>

----------------------------------------------------------------------------
(* Bounds of the model. *)

MaxId == 3            \* ids the storage may assign: 1..MaxId
MaxReq == 2           \* request goroutines in flight at once
MaxCount == 1         \* a recommend is accepted while the count is below this
RaceCount == 2        \* the same, where only recommend requests run
MaxLen == 2           \* longest text searched and searched for
MaxSeedId == 5        \* main() seeds while the two ids fit in 1..MaxSeedId

Ids == 1..MaxId
Slots == 1..MaxReq

----------------------------------------------------------------------------
(* Data model. *)

Spot(id, name, description, ticket, transport, recommendCount, imageURL) ==
    [ID |-> id, Name |-> name, Description |-> description, Ticket |-> ticket,
     Transport |-> transport, RecommendCount |-> recommendCount,
     ImageURL |-> imageURL]

\* The five form fields read by c.PostForm in /add and /update.
PostForm(name, description, ticket, transport, imageurl) ==
    [name |-> name, description |-> description, ticket |-> ticket,
     transport |-> transport, imageurl |-> imageurl]

\* The two rows main() inserts into an empty table.
SeedWestLake ==
    Spot(1, <<"u897f", "u6e56">>,
            <<"u676d", "u5dde", "u8457", "u540d", "u666f", "u70b9">>,
            <<"u514d", "u8d39">>,
            <<"u516c", "u4ea4", "u53ef", "u8fbe">>,
            0, << >>)

SeedHuangshan ==
    Spot(2, <<"u9ec4", "u5c71">>,
            <<"u4e2d", "u56fd", "u540d", "u5c71">>,
            <<"u95e8", "u7968", "2", "3", "0", "u5143">>,
            <<"u9ad8", "u94c1", "+", "u5927", "u5df4">>,
            0, << >>)

\* Forms a client submits: nothing filled in, the first three fields filled
\* in, the last two filled in.
FormNone == PostForm(<< >>, << >>, << >>, << >>, << >>)
FormHead == PostForm(<<"A", "b">>, <<"a", "%">>, <<"5">>, << >>, << >>)
FormTail == PostForm(<< >>, << >>, << >>, <<"t">>, <<"/", "i">>)
Forms == {FormNone, FormHead, FormTail}

\* Responses.  A redirect and the 404 carry no rows; a rendered page does.
NoResponse == [status |-> 0, spots |-> << >>]
Redirect == [status |-> 302, spots |-> << >>]
NotFound == [status |-> 404, spots |-> << >>]
HTML(spots) == [status |-> 200, spots |-> spots]

\* A goroutine slot with no handler running.
Idle == [pc |-> "idle", spot |-> Spot(0, << >>, << >>, << >>, << >>, 0, << >>),
         form |-> FormNone]

----------------------------------------------------------------------------
(* GORM statements, as operators on the table. *)

\* db.First(&spot, id): whether a row with that primary key exists.
dbFirstFinds(t, id) == id \in DOMAIN t

\* The key of a rowid table without AUTOINCREMENT: one more than the largest
\* key now present.
dbCreateRowid(t, s) ==
    IF DOMAIN t = {} THEN 1
    ELSE (CHOOSE i \in DOMAIN t : \A j \in DOMAIN t : j <= i) + 1

\* The key db.Create gives a new row.  ID is a uint primary key, which GORM's
\* SQLite dialect declares "integer PRIMARY KEY AUTOINCREMENT": one more than
\* the largest key the table has ever held (s, the table's sqlite_sequence).
dbCreateID(t, s) == s + 1

\* An INSERT of the first four form fields, the image URL left out.
dbCreateNoImage(t, s, f) ==
    LET id == dbCreateID(t, s)
    IN  [i \in DOMAIN t \cup {id} |->
            IF i = id
            THEN Spot(id, f.name, f.description, f.ticket, f.transport, 0, << >>)
            ELSE t[i]]

\* db.Create(&Spot{...}): INSERT.
dbCreate(t, s, f) ==
    LET id == dbCreateID(t, s)
    IN  [i \in DOMAIN t \cup {id} |->
            IF i = id
            THEN Spot(id, f.name, f.description, f.ticket, f.transport, 0,
                      f.imageurl)
            ELSE t[i]]

\* db.Save(&spot) with a non-zero primary key: UPDATE of every column WHERE
\* id = spot.ID and, when that matches no row, INSERT ... ON CONFLICT DO
\* UPDATE of the same row.  Either way the row spot.ID afterwards holds spot.
dbSave(t, s) ==
    [i \in DOMAIN t \cup {s.ID} |-> IF i = s.ID THEN s ELSE t[i]]

\* A column written whether or not the new value is a zero value.
UpdatesColumnAlways(old, new) == new

\* One column of db.Model(&spot).Updates(Spot{...}): a zero value (the empty
\* string) is left out of the SET list.
UpdatesColumn(old, new) == IF new # << >> THEN new ELSE old

\* An UPDATE that also writes the recommend_count of the struct it is given,
\* which is 0 (Select("*"), or Save in place of Updates).
dbUpdatesWithCount(t, id, f) ==
    IF id \notin DOMAIN t
    THEN t
    ELSE [t EXCEPT ![id] =
            Spot(id,
                 UpdatesColumn(@.Name, f.name),
                 UpdatesColumn(@.Description, f.description),
                 UpdatesColumn(@.Ticket, f.ticket),
                 UpdatesColumn(@.Transport, f.transport),
                 0,
                 UpdatesColumn(@.ImageURL, f.imageurl))]

\* db.Model(&spot).Updates(Spot{Name, Description, Ticket, Transport,
\* ImageURL}): UPDATE ... WHERE id = spot.ID; no row matched changes nothing.
dbUpdates(t, id, f) ==
    IF id \notin DOMAIN t
    THEN t
    ELSE [t EXCEPT ![id] =
            Spot(id,
                 UpdatesColumn(@.Name, f.name),
                 UpdatesColumn(@.Description, f.description),
                 UpdatesColumn(@.Ticket, f.ticket),
                 UpdatesColumn(@.Transport, f.transport),
                 @.RecommendCount,
                 UpdatesColumn(@.ImageURL, f.imageurl))]

\* What Updates reads of its model &spot: the primary key, for the WHERE.
PrimaryKey(s) == Spot(s.ID, << >>, << >>, << >>, << >>, 0, << >>)

\* A DELETE whose WHERE holds of every row once it holds of one.
dbDeleteAll(t, ids) ==
    IF DOMAIN t \cap ids = {} THEN t ELSE [i \in {} |-> t[i]]

\* db.Delete(&Spot{}, id) and db.Where("id IN ?", ids).Delete(&Spot{}).
dbDelete(t, ids) == [i \in DOMAIN t \ ids |-> t[i]]

----------------------------------------------------------------------------
(* SQLite's LIKE and ORDER BY, as the two read handlers use them. *)

UpperCase == <<"A", "B", "C", "D", "E", "F", "G", "H", "I", "J", "K", "L", "M",
               "N", "O", "P", "Q", "R", "S", "T", "U", "V", "W", "X", "Y", "Z">>
LowerCase == <<"a", "b", "c", "d", "e", "f", "g", "h", "i", "j", "k", "l", "m",
               "n", "o", "p", "q", "r", "s", "t", "u", "v", "w", "x", "y", "z">>

\* A comparison that tells the cases of a letter apart.
KeepCase(c) == c

\* LIKE compares letters of ASCII without regard to case, and only those.
sqlite3Tolower(c) ==
    IF \E i \in 1..26 : UpperCase[i] = c
    THEN LowerCase[CHOOSE i \in 1..26 : UpperCase[i] = c]
    ELSE c

\* text LIKE pattern: "%" stands for any run of characters, "_" for any one
\* character, every other character for itself up to the case of a letter.
RECURSIVE Like(_, _)
Like(pattern, text) ==
    IF pattern = << >>
    THEN text = << >>
    ELSE IF Head(pattern) = "%"
    THEN \E k \in 0..Len(text) :
            Like(Tail(pattern), SubSeq(text, k + 1, Len(text)))
    ELSE /\ text # << >>
         /\ \/ Head(pattern) = "_"
            \/ sqlite3Tolower(Head(pattern)) = sqlite3Tolower(Head(text))
         /\ Like(Tail(pattern), Tail(text))

\* db.Where("name LIKE ? OR description LIKE ?", "%"+query+"%", "%"+query+"%")
dbWhere(t, query) ==
    LET pattern == <<"%">> \o query \o <<"%">>
    IN  {s \in {t[i] : i \in DOMAIN t} :
            Like(pattern, s.Name) \/ Like(pattern, s.Description)}

\* ORDER BY id asc alone.
OrderBeforeById(a, b) == a.ID < b.ID

\* ORDER BY recommend_count desc, id asc: whether row a comes before row b.
OrderBefore(a, b) ==
    \/ a.RecommendCount > b.RecommendCount
    \/ a.RecommendCount = b.RecommendCount /\ a.ID < b.ID

\* db.Order("recommend_count desc, id asc").Find(&spots) over the rows chosen.
RECURSIVE dbOrderFind(_)
dbOrderFind(rows) ==
    IF rows = {}
    THEN << >>
    ELSE LET first == CHOOSE a \in rows :
                        \A b \in rows \ {a} : OrderBefore(a, b)
         IN  <<first>> \o dbOrderFind(rows \ {first})

\* The rows GET / renders.
IndexSpots(t) == dbOrderFind({t[i] : i \in DOMAIN t})

\* A Find without the Order call: the rows come in rowid order.
RECURSIVE dbFind(_)
dbFind(rows) ==
    IF rows = {}
    THEN << >>
    ELSE LET first == CHOOSE a \in rows : \A b \in rows \ {a} : a.ID < b.ID
         IN  <<first>> \o dbFind(rows \ {first})

\* A search whose branch for the empty query leaves out the Order call.
SearchSpotsUnordered(t, query) ==
    IF query = << >>
    THEN dbFind({t[i] : i \in DOMAIN t})
    ELSE dbOrderFind(dbWhere(t, query))

\* The rows GET /search?q=query renders.
SearchSpots(t, query) ==
    IF query = << >>
    THEN dbOrderFind({t[i] : i \in DOMAIN t})
    ELSE dbOrderFind(dbWhere(t, query))

----------------------------------------------------------------------------
(* Initial state: main() has migrated and seeded a fresh spots.db. *)

Init ==
    /\ table = [i \in {1, 2} |-> IF i = 1 THEN SeedWestLake ELSE SeedHuangshan]
    /\ seq = 2
    /\ req = [r \in Slots |-> Idle]
    /\ response = NoResponse
    /\ main = "serving"
    /\ held = {1, 2}
    /\ recommends = [i \in Ids |-> 0]

\* A new request is served by the lowest free slot (slots are interchangeable).
Free(r) ==
    /\ req[r].pc = "idle"
    /\ \A q \in Slots : q < r => req[q].pc # "idle"

----------------------------------------------------------------------------
(* Handlers. *)

\* POST /add
Add(f) ==
    /\ dbCreateID(table, seq) <= MaxId
    /\ table' = dbCreate(table, seq, f)
    /\ seq' = IF dbCreateID(table, seq) > seq THEN dbCreateID(table, seq) ELSE seq
    /\ response' = Redirect
    /\ UNCHANGED req

\* RecommendFirst with the error of db.First ignored: the zero Spot is saved.
RecommendFirstUnchecked(r, id, cap) ==
    /\ Free(r)
    /\ dbFirstFinds(table, id) => table[id].RecommendCount < cap
    /\ req' = [req EXCEPT ![r] =
                [pc |-> "recommend",
                 spot |-> IF dbFirstFinds(table, id) THEN table[id]
                          ELSE [Idle.spot EXCEPT !.ID = id],
                 form |-> FormNone]]
    /\ UNCHANGED <<table, seq, response>>

\* POST /recommend/:id, up to db.First; a miss redirects at once.  The model
\* stops taking recommend requests for a row whose count has reached cap.
RecommendFirst(r, id, cap) ==
    /\ Free(r)
    /\ IF dbFirstFinds(table, id)
       THEN /\ table[id].RecommendCount < cap
            /\ req' = [req EXCEPT ![r] =
                        [pc |-> "recommend", spot |-> table[id], form |-> FormNone]]
            /\ UNCHANGED response
       ELSE /\ response' = Redirect
            /\ UNCHANGED req
    /\ UNCHANGED <<table, seq>>

\* RecommendSave with the increment left out.
RecommendSaveAsRead(r) ==
    /\ req[r].pc = "recommend"
    /\ table' = dbSave(table, req[r].spot)
    /\ req' = [req EXCEPT ![r] = Idle]
    /\ response' = Redirect
    /\ UNCHANGED seq

\* POST /recommend/:id, spot.RecommendCount++ and db.Save(&spot).
RecommendSave(r) ==
    /\ req[r].pc = "recommend"
    /\ table' = dbSave(table,
                  [req[r].spot EXCEPT !.RecommendCount = @ + 1])
    /\ req' = [req EXCEPT ![r] = Idle]
    /\ response' = Redirect
    /\ UNCHANGED seq

\* A delete that looks the row up first and answers 404 on a miss, as update
\* does.
DeleteOrNotFound(id) ==
    /\ table' = dbDelete(table, {id})
    /\ response' = IF dbFirstFinds(table, id) THEN Redirect ELSE NotFound
    /\ UNCHANGED <<seq, req>>

\* POST /delete/:id
Delete(id) ==
    /\ table' = dbDelete(table, {id})
    /\ response' = Redirect
    /\ UNCHANGED <<seq, req>>

\* UpdateFirst with the error of db.First ignored.
UpdateFirstUnchecked(r, id, f) ==
    /\ Free(r)
    /\ req' = [req EXCEPT ![r] =
                [pc |-> "update",
                 spot |-> IF dbFirstFinds(table, id) THEN PrimaryKey(table[id])
                          ELSE Idle.spot,
                 form |-> f]]
    /\ UNCHANGED <<table, seq, response>>

\* POST /update/:id, up to db.First; a miss answers 404 and returns.
UpdateFirst(r, id, f) ==
    /\ Free(r)
    /\ IF dbFirstFinds(table, id)
       THEN /\ req' = [req EXCEPT ![r] =
                        [pc |-> "update", spot |-> PrimaryKey(table[id]),
                         form |-> f]]
            /\ UNCHANGED response
       ELSE /\ response' = NotFound
            /\ UNCHANGED req
    /\ UNCHANGED <<table, seq>>

\* POST /update/:id, db.Model(&spot).Updates(...) and the redirect.
UpdateUpdates(r) ==
    /\ req[r].pc = "update"
    /\ table' = dbUpdates(table, req[r].spot.ID, req[r].form)
    /\ req' = [req EXCEPT ![r] = Idle]
    /\ response' = Redirect
    /\ UNCHANGED seq

\* BatchDelete reading one value of the form (c.PostForm("ids")) in place of
\* all of them.
BatchDeleteFirst(ids) ==
    /\ table' = IF ids # {}
                THEN dbDelete(table, {CHOOSE i \in ids : \A j \in ids : i <= j})
                ELSE table
    /\ response' = Redirect
    /\ UNCHANGED <<seq, req>>

\* POST /batchdelete
BatchDelete(ids) ==
    /\ table' = IF ids # {} THEN dbDelete(table, ids) ELSE table
    /\ response' = Redirect
    /\ UNCHANGED <<seq, req>>

\* GET /
Index ==
    /\ response' = HTML(IndexSpots(table))
    /\ UNCHANGED <<table, seq, req>>

\* GET /search
Search(query) ==
    /\ response' = HTML(SearchSpots(table, query))
    /\ UNCHANGED <<table, seq, req>>

\* History: held gathers every id that has been present.
Held == held' = held \cup DOMAIN table'

\* History: recommends counts, per id, the recommend requests whose First
\* found the row.
Found(id) ==
    \E r \in Slots : /\ req[r].pc = "idle"
                     /\ req'[r].pc = "recommend"
                     /\ req'[r].spot.ID = id

Recommends ==
    recommends' = [id \in Ids |->
                    IF Found(id) THEN recommends[id] + 1 ELSE recommends[id]]

AllIdle == \A r \in Slots : req[r].pc = "idle"

\* The write handlers, served concurrently.
Served(handler) == handler /\ Held /\ UNCHANGED <<main, recommends>>

Next ==
    \/ \E f \in Forms : Served(Add(f))
    \/ \E r \in Slots, id \in Ids : Served(RecommendFirst(r, id, MaxCount))
    \/ \E r \in Slots : Served(RecommendSave(r))
    \/ \E id \in Ids : Served(Delete(id))
    \/ \E r \in Slots, id \in Ids, f \in Forms : Served(UpdateFirst(r, id, f))
    \/ \E r \in Slots : Served(UpdateUpdates(r))
    \/ \E ids \in SUBSET Ids : Served(BatchDelete(ids))

Spec == Init /\ [][Next]_vars

\* The write handlers served one request at a time: a request that has done
\* its First finishes before anything else runs.
ServedAlone(handler) ==
    handler /\ (AllIdle \/ AllIdle') /\ Held /\ Recommends /\ UNCHANGED main

\* The forms posted in the one-at-a-time and the startup specifications.
SeqForms == {FormNone, FormHead}

NextSeq ==
    \/ \E f \in SeqForms : ServedAlone(Add(f))
    \/ \E r \in Slots, id \in Ids : ServedAlone(RecommendFirst(r, id, RaceCount))
    \/ \E r \in Slots : ServedAlone(RecommendSave(r))
    \/ \E id \in Ids : ServedAlone(Delete(id))
    \/ \E r \in Slots, id \in Ids, f \in SeqForms :
            ServedAlone(UpdateFirst(r, id, f))
    \/ \E r \in Slots : ServedAlone(UpdateUpdates(r))
    \/ \E ids \in SUBSET Ids : ServedAlone(BatchDelete(ids))

SpecSeq == Init /\ [][NextSeq]_vars

\* Recommend requests alone, served concurrently.
Counted(handler) == handler /\ Held /\ Recommends /\ UNCHANGED main

NextRecommend ==
    \/ \E r \in Slots, id \in Ids : Counted(RecommendFirst(r, id, RaceCount))
    \/ \E r \in Slots : Counted(RecommendSave(r))

SpecRecommend == Init /\ [][NextRecommend]_vars

----------------------------------------------------------------------------
(* Startup: main() run against whatever spots.db earlier runs have left. *)

\* The fields of a seed row, as db.Create is given them.
SeedFields(s) == PostForm(s.Name, s.Description, s.Ticket, s.Transport, s.ImageURL)

\* main() with the count == 0 test left out: the two rows are inserted at
\* every start.
MainSeedAlways ==
    /\ main = "start"
    /\ seq + 2 <= MaxSeedId
    /\ LET one == dbCreate(table, seq, SeedFields(SeedWestLake))
       IN  table' = dbCreate(one, dbCreateID(table, seq), SeedFields(SeedHuangshan))
    /\ seq' = dbCreateID(table, seq) + 1
    /\ main' = "serving"
    /\ UNCHANGED <<req, response>>

\* main(), from AutoMigrate to the seeding: the two rows are inserted when
\* Count finds the table empty, one db.Create after the other; then the
\* listeners start.
Main ==
    /\ main = "start"
    /\ IF Cardinality(DOMAIN table) = 0
       THEN /\ seq + 2 <= MaxSeedId
            /\ LET one == dbCreate(table, seq, SeedFields(SeedWestLake))
               IN  table' = dbCreate(one, dbCreateID(table, seq),
                                     SeedFields(SeedHuangshan))
            /\ seq' = dbCreateID(table, seq) + 1
       ELSE UNCHANGED <<table, seq>>
    /\ main' = "serving"
    /\ UNCHANGED <<req, response>>

\* The process ends and is started again: spots.db stays, the requests in
\* flight are gone, and the new process has answered nothing yet.
Restart ==
    /\ main = "serving"
    /\ main' = "start"
    /\ req' = [r \in Slots |-> Idle]
    /\ response' = NoResponse
    /\ UNCHANGED <<table, seq>>

\* No spots.db yet: AutoMigrate creates an empty table.
InitStart ==
    /\ table = [i \in {} |-> Idle.spot]
    /\ seq = 0
    /\ req = [r \in Slots |-> Idle]
    /\ response = NoResponse
    /\ main = "start"
    /\ held = {}
    /\ recommends = [i \in Ids |-> 0]

\* A handler of the running process.
Running(handler) ==
    main = "serving" /\ handler /\ Held /\ UNCHANGED <<main, recommends>>

Started(step) == step /\ Held /\ UNCHANGED recommends

NextStart ==
    \/ Started(Main)
    \/ Started(Restart)
    \/ \E f \in SeqForms : Running(Add(f))
    \/ \E id \in 1..MaxSeedId : Running(Delete(id))
    \/ \E r \in Slots, id \in 1..MaxSeedId, f \in SeqForms :
            Running(UpdateFirst(r, id, f))
    \/ \E r \in Slots : Running(UpdateUpdates(r))
    \/ \E ids \in SUBSET (1..MaxSeedId) : Running(BatchDelete(ids))

SpecStart == InitStart /\ [][NextStart]_vars

----------------------------------------------------------------------------
(* The read handlers, applied to tables drawn from bounded sets. *)

Alphabet == {"a", "A", "%", "_"}

RECURSIVE TextsUpTo(_)
TextsUpTo(n) ==
    IF n = 0
    THEN {<< >>}
    ELSE TextsUpTo(n - 1) \cup
         {<<c>> \o w : c \in Alphabet, w \in {v \in TextsUpTo(n - 1) : Len(v) = n - 1}}

Texts == TextsUpTo(MaxLen)

\* Tables of one or two rows: row 1 varies in its name, row 2 in its
\* description, both in their counts; the two texts share MaxLen + 1
\* characters.
QueryTables ==
    {[i \in d |->
        IF i = 1
        THEN Spot(1, w[1], << >>, << >>, << >>, c[1], << >>)
        ELSE Spot(2, << >>, w[2], << >>, << >>, c[2], << >>)] :
     d \in {{1}, {1, 2}},
     w \in {v \in Texts \X Texts : Len(v[1]) + Len(v[2]) <= MaxLen + 1},
     c \in [{1, 2} -> 0..1]}

InitQuery ==
    /\ table \in QueryTables
    /\ seq = 2
    /\ req = [r \in Slots |-> Idle]
    /\ response = NoResponse
    /\ main = "serving"
    /\ held = {1, 2}
    /\ recommends = [i \in Ids |-> 0]

Rendered(handler) == handler /\ UNCHANGED <<main, held, recommends>>

NextQuery ==
    \/ Rendered(Index)
    \/ \E query \in Texts : Rendered(Search(query))

SpecQuery == InitQuery /\ [][NextQuery]_vars

----------------------------------------------------------------------------
(* Claims. *)

\* Recommend requests that have done their First on id and not yet their Save.
Saving(id) ==
    Cardinality({r \in Slots : req[r].pc = "recommend" /\ req[r].spot.ID = id})

\* C1: when every recommend request has completed, and nothing but recommend
\* requests has run, each row's recommendCount is its initial value (0) plus
\* the number of recommend requests made for it, however their First and Save
\* steps interleaved.
ConcurrentRecommendsAllCount ==
    AllIdle =>
        \A id \in DOMAIN table : table[id].RecommendCount = 0 + recommends[id]

\* C3: no step takes the stored recommendCount of a present row to a smaller
\* value.
RecommendCountNeverDecreases ==
    [][\A id \in DOMAIN table \cap DOMAIN table' :
            table'[id].RecommendCount >= table[id].RecommendCount]_vars

\* C4: a row that has been deleted is absent in every later state: an id that
\* has been held and is absent stays absent.
DeletionIsPermanent ==
    [][\A id \in held : id \notin DOMAIN table => id \notin DOMAIN table']_vars

\* C9: with requests served one at a time, every row's recommendCount is the
\* number of recommend requests that found it, less the one still to save: each
\* recommend adds exactly 1, N of them exactly N.
SequentialRecommendAddsOne ==
    \A id \in DOMAIN table :
        table[id].RecommendCount = recommends[id] - Saving(id)

\* C9 witness: two recommend requests in a row have been served for a row.
TwoRecommendsServed ==
    /\ AllIdle
    /\ \E id \in DOMAIN table :
            recommends[id] = 2 /\ table[id].RecommendCount = 2

\* Adjacent rows of a page are in order: the larger recommendCount first, and
\* of two equal counts the smaller id first.
Ordered(spots) ==
    \A i \in 1..(Len(spots) - 1) :
        \/ spots[i].RecommendCount > spots[i + 1].RecommendCount
        \/ /\ spots[i].RecommendCount = spots[i + 1].RecommendCount
           /\ spots[i].ID < spots[i + 1].ID

\* Queries tried against the tables the write handlers reach.
SomeQueries == {<< >>, <<"a">>, <<"u5c71">>, <<"%">>, <<"t">>}

\* C2: in every reachable table the page of GET / and the page of GET /search,
\* for any query, are sorted by recommendCount descending, then id ascending,
\* and the page of GET / holds every present row exactly once.
PagesAreOrderedAndComplete ==
    LET spots == IndexSpots(table)
    IN  /\ Ordered(spots)
        /\ \A query \in SomeQueries : Ordered(SearchSpots(table, query))
        /\ Len(spots) = Cardinality(DOMAIN table)
        /\ \A id \in DOMAIN table : \E i \in 1..Len(spots) : spots[i] = table[id]

\* C2 witness: three rows, listed neither in id order nor in reverse: a row
\* with the larger count first, then equal counts by id.
PageOrderedByCountThenId ==
    /\ Len(IndexSpots(table)) = 3
    /\ IndexSpots(table)[1].ID = 2
    /\ IndexSpots(table)[2].ID = 1
    /\ IndexSpots(table)[3].ID = 3

\* C5: the Updates step of an update request whose row is present stores, for
\* each of the five fields, the submitted value when that is not empty and
\* keeps the stored value when it is, and the request ends in the redirect.
UpdateIsPartial ==
    [][\A r \in Slots :
        (/\ req[r].pc = "update"
         /\ req'[r].pc = "idle"
         /\ req[r].spot.ID \in DOMAIN table)
        => LET id == req[r].spot.ID
               f == req[r].form
           IN  /\ id \in DOMAIN table'
               /\ table'[id].Name =
                    (IF f.name = << >> THEN table[id].Name ELSE f.name)
               /\ table'[id].Description =
                    (IF f.description = << >> THEN table[id].Description
                     ELSE f.description)
               /\ table'[id].Ticket =
                    (IF f.ticket = << >> THEN table[id].Ticket ELSE f.ticket)
               /\ table'[id].Transport =
                    (IF f.transport = << >> THEN table[id].Transport
                     ELSE f.transport)
               /\ table'[id].ImageURL =
                    (IF f.imageurl = << >> THEN table[id].ImageURL
                     ELSE f.imageurl)
               /\ (f = FormNone => table' = table)
               /\ response' = Redirect]_vars

\* C5 witness: row 1 after an update that filled in the first three fields
\* only: they are replaced, the seeded transport is kept.
UpdatedInPart ==
    /\ AllIdle
    /\ response = Redirect
    /\ 1 \in DOMAIN table
    /\ table[1].Name = FormHead.name
    /\ table[1].Description = FormHead.description
    /\ table[1].Ticket = FormHead.ticket
    /\ table[1].Transport = SeedWestLake.Transport

\* C6: an update request for an id that is not present answers 404 and leaves
\* the table as it is, whatever the form holds; the handler has returned.
UpdateUnknownIsNotFound ==
    [][\A r \in Slots, id \in Ids, f \in Forms :
        (UpdateFirst(r, id, f) /\ id \notin DOMAIN table)
        => /\ response' = NotFound
           /\ response'.status = 404
           /\ table' = table
           /\ req' = req]_vars

\* C6 witness: the 404 has been sent.
NotFoundSent ==
    /\ response = NotFound
    /\ \E id \in Ids : id \notin DOMAIN table
    /\ AllIdle

\* C8: the id a create assigns has never been held by any row, present or
\* deleted (a create is the step that adds a row and is no request's Save);
\* every present row is stored under its own id.
CreatedIdIsFresh ==
    /\ [](\A id \in DOMAIN table : table[id].ID = id /\ id \in held)
    /\ [][(req' = req /\ DOMAIN table' # DOMAIN table
                      /\ DOMAIN table \subseteq DOMAIN table') =>
            \E id \in DOMAIN table' :
                /\ id \notin held
                /\ DOMAIN table' = DOMAIN table \cup {id}
                /\ table'[id].ID = id
                /\ \A other \in DOMAIN table : table'[other] = table[other]]_vars

\* C8 witness: row 2, which held the highest id, is gone and a row created
\* since holds id 3.
CreatedAfterDelete ==
    /\ 2 \notin DOMAIN table
    /\ 3 \in DOMAIN table
    /\ held = {1, 2, 3}

\* C10: a recommend request for an id that is not present changes no row,
\* starts no write and is answered by the redirect.
RecommendUnknownIsNoOp ==
    [][\A r \in Slots, id \in Ids :
        (RecommendFirst(r, id, MaxCount) /\ id \notin DOMAIN table)
        => /\ table' = table
           /\ req' = req
           /\ seq' = seq
           /\ response' = Redirect]_vars

\* C10 witness: the seeded table, untouched, after a redirect: id 3 was asked
\* for before any row held it.
RedirectedWithoutChange ==
    /\ response = Redirect
    /\ 3 \notin held
    /\ table[1] = SeedWestLake
    /\ table[2] = SeedHuangshan
    /\ AllIdle

SameLetter(a, b) ==
    \/ a = b
    \/ \E i \in 1..26 : {a, b} = {UpperCase[i], LowerCase[i]}

\* text holds query as a run of consecutive characters.
Contains(text, query) ==
    \E i \in 0..(Len(text) - Len(query)) :
        \A k \in 1..Len(query) : text[i + k] = query[k]

\* The same, with the case of ASCII letters ignored.
ContainsIgnoringCase(text, query) ==
    \E i \in 0..(Len(text) - Len(query)) :
        \A k \in 1..Len(query) : SameLetter(text[i + k], query[k])

\* The rows of the page, as a set.
Shown(spots) == {spots[i] : i \in 1..Len(spots)}

\* C7, as claimed: for a query that is not empty the page of GET /search holds
\* exactly the rows of the page of GET / whose name or description contains
\* the query as a literal, case-sensitive substring.
SearchIsLiteralSubstring ==
    \A query \in Texts \ {<< >>} :
        LET literal(s) ==
                \/ Contains(s.Name, query)
                \/ Contains(s.Description, query)
        IN  SearchSpots(table, query) = SelectSeq(IndexSpots(table), literal)

\* C7, amended: the page of GET /search is the page of GET / cut down to the
\* rows found; every row whose name or description contains the query
\* literally is found; and for a query without "%" and "_" the rows found are
\* exactly those whose name or description contains it with the case of ASCII
\* letters ignored.
SearchIsLikePattern ==
    LET all == IndexSpots(table)
    IN  \A query \in Texts \ {<< >>} :
            LET found == Shown(SearchSpots(table, query))
                isFound(s) == s \in found
                literal(s) ==
                    \/ Contains(s.Name, query)
                    \/ Contains(s.Description, query)
                folded(s) ==
                    \/ ContainsIgnoringCase(s.Name, query)
                    \/ ContainsIgnoringCase(s.Description, query)
                plain == \A k \in 1..Len(query) : query[k] \notin {"%", "_"}
            IN  /\ SearchSpots(table, query) = SelectSeq(all, isFound)
                /\ \A s \in Shown(all) : literal(s) => isFound(s)
                /\ plain => \A s \in Shown(all) : isFound(s) <=> folded(s)

\* C7 witness: a search has rendered some of the rows and not the others.
SearchRenderedSome ==
    /\ response.status = 200
    /\ response.spots # << >>
    /\ Len(response.spots) < Len(IndexSpots(table))

\* C11: a delete request removes the row of its id and no other, leaves every
\* other row as it was, leaves the table as it was when no row has that id, is
\* answered by the redirect either way, and repeated on its own result changes
\* nothing more.
DeleteRemovesExactlyOne ==
    [][\A id \in Ids :
        Delete(id)
        => /\ DOMAIN table' = DOMAIN table \ {id}
           /\ \A other \in DOMAIN table' : table'[other] = table[other]
           /\ (id \notin DOMAIN table => table' = table)
           /\ dbDelete(table', {id}) = table'
           /\ response' = Redirect
           /\ req' = req]_vars

\* C11 witness: row 1 has been deleted and row 2 still holds its seed, while
\* no other request is in flight.
DeletedOneOfTwo ==
    /\ DOMAIN table = {2}
    /\ table[2] = SeedHuangshan
    /\ held = {1, 2}
    /\ response = Redirect
    /\ AllIdle

\* C12: a batch delete removes the present rows whose id is among ids and no
\* other, leaves every other row as it was, leaves the table as it was when
\* ids is empty or names no present row, and is answered by the redirect in
\* every case.
BatchDeleteRemovesExactlyIds ==
    [][\A ids \in SUBSET Ids :
        BatchDelete(ids)
        => /\ DOMAIN table' = DOMAIN table \ ids
           /\ \A other \in DOMAIN table' : table'[other] = table[other]
           /\ (ids \cap DOMAIN table = {} => table' = table)
           /\ response' = Redirect
           /\ req' = req]_vars

\* C12 witness: both seeded rows are gone at once while a created row 3 stays
\* as created.
BatchDeletedSeeds ==
    /\ DOMAIN table = {3}
    /\ table[3] = Spot(3, FormTail.name, FormTail.description, FormTail.ticket,
                        FormTail.transport, 0, FormTail.imageurl)
    /\ held = {1, 2, 3}
    /\ response = Redirect
    /\ AllIdle

\* C13: a create request adds exactly one row, under an id no present row
\* has, with recommendCount 0 and the five fields as submitted (a field left
\* out is the empty string), leaves every existing row as it was, whether or
\* not an existing row has the same name or fields, and is answered by the
\* redirect.
CreateAddsOneRow ==
    [][\A f \in Forms :
        Add(f)
        => \E id \in DOMAIN table' \ DOMAIN table :
            /\ DOMAIN table' = DOMAIN table \cup {id}
            /\ table'[id].ID = id
            /\ table'[id].RecommendCount = 0
            /\ table'[id].Name = f.name
            /\ table'[id].Description = f.description
            /\ table'[id].Ticket = f.ticket
            /\ table'[id].Transport = f.transport
            /\ table'[id].ImageURL = f.imageurl
            /\ \A other \in DOMAIN table : table'[other] = table[other]
            /\ response' = Redirect
            /\ req' = req]_vars

\* C13 witness: a created row 3 stands beside row 1 of the same name,
\* description and ticket, both present.
CreatedBesideSameName ==
    /\ DOMAIN table = {1, 2, 3}
    /\ table[3] = Spot(3, FormHead.name, FormHead.description, FormHead.ticket,
                        << >>, 0, << >>)
    /\ table[1].Name = table[3].Name
    /\ table[1].Description = table[3].Description
    /\ table[1].Ticket = table[3].Ticket
    /\ response = Redirect
    /\ AllIdle

\* C14: for every table the page of GET /search with the empty query is the
\* page of GET /: the same rows in the same order; and the search step renders
\* just that page and writes nothing.
SearchEmptyIsList ==
    /\ [](SearchSpots(table, << >>) = IndexSpots(table))
    /\ [][Search(<< >>) =>
            /\ response' = HTML(IndexSpots(table))
            /\ table' = table]_vars

\* C14 witness: a page of both rows has been rendered with row 2, of the
\* larger count, ahead of row 1.
RenderedAllCountFirst ==
    /\ response.status = 200
    /\ Len(response.spots) = 2
    /\ response.spots[1].ID = 2
    /\ response.spots[2].ID = 1
    /\ response.spots = SearchSpots(table, << >>)

\* A row holds the fields of a seed, whatever its id.
IsSeed(row, seed) == [row EXCEPT !.ID = seed.ID] = seed

\* C15: the step of main() that brings the process up inserts the two seed
\* rows, West Lake before Huangshan, each with recommendCount 0, exactly when
\* it finds the table empty, and then they are its only rows; when it finds a
\* row, it leaves the table as it is.  Started on no database at all, it
\* leaves the table the request handlers start from.
InitializeSeedsIffEmpty ==
    [][(main = "start" /\ main' = "serving") =>
        IF DOMAIN table = {}
        THEN /\ \E a, b \in DOMAIN table' :
                    /\ a < b
                    /\ DOMAIN table' = {a, b}
                    /\ IsSeed(table'[a], SeedWestLake)
                    /\ IsSeed(table'[b], SeedHuangshan)
                    /\ table'[a].RecommendCount = 0
                    /\ table'[b].RecommendCount = 0
             /\ seq = 0 =>
                    table' = [i \in {1, 2} |->
                                IF i = 1 THEN SeedWestLake ELSE SeedHuangshan]
        ELSE table' = table]_vars

\* C15 witness: the process has come up on a table holding one row, the
\* second seed of an earlier start on an emptied table, and has left it so.
StartedOnPopulated ==
    /\ main = "serving"
    /\ response = NoResponse
    /\ DOMAIN table = {4}
    /\ IsSeed(table[4], SeedHuangshan)

\* The five text fields of a row.
TextFields(row) ==
    <<row.Name, row.Description, row.Ticket, row.Transport, row.ImageURL>>

\* C16: the Save step of a recommend request changes no text field of any
\* row: whatever name, description, ticket, transport and imageURL an update
\* has stored are still stored after it.
RecommendIsCounterOnly ==
    [][\A r \in Slots :
        (req[r].pc = "recommend" /\ req'[r].pc = "idle")
        => \A id \in DOMAIN table \cap DOMAIN table' :
                TextFields(table'[id]) = TextFields(table[id])]_vars

\* C17: no step of an update request, neither its First nor its Updates,
\* changes the recommendCount of any row or the set of rows, whatever the form
\* holds and whatever recommend requests are in flight.
UpdateKeepsRecommendCount ==
    [][\A r \in Slots :
        ((\E id \in Ids, f \in Forms : UpdateFirst(r, id, f)) \/ UpdateUpdates(r))
        => /\ DOMAIN table' = DOMAIN table
           /\ \A id \in DOMAIN table :
                table'[id].RecommendCount = table[id].RecommendCount]_vars

\* C17 witness: row 1 has been recommended and then updated: it holds the
\* submitted name and its count of 1.
UpdatedAfterRecommend ==
    /\ AllIdle
    /\ 1 \in DOMAIN table
    /\ table[1].RecommendCount = 1
    /\ table[1].Name = FormHead.name
    /\ table[1].ImageURL = FormTail.imageurl

\* C18: every step that ends a recommend, a delete or a batch delete request
\* writes the redirect, whether or not the ids it names are present; the
\* lookup of an update request writes the 404 when the id is absent and
\* otherwise writes nothing and goes on to the step that writes the redirect.
OnlyUpdateAnswersNotFound ==
    [][/\ \A r \in Slots, id \in Ids :
            RecommendFirst(r, id, MaxCount) =>
                IF id \in DOMAIN table
                THEN req'[r].pc = "recommend" /\ response' = response
                ELSE req' = req /\ response' = Redirect
       /\ \A r \in Slots : RecommendSave(r) => response' = Redirect
       /\ \A id \in Ids : Delete(id) => response' = Redirect
       /\ \A ids \in SUBSET Ids : BatchDelete(ids) => response' = Redirect
       /\ \A r \in Slots, id \in Ids, f \in Forms :
            UpdateFirst(r, id, f) =>
                IF id \in DOMAIN table
                THEN req'[r].pc = "update" /\ response' = response
                ELSE req' = req /\ response' = NotFound
       /\ \A r \in Slots : UpdateUpdates(r) => response' = Redirect]_vars

\* C18 witness: every row has been deleted, each delete answered by the
\* redirect, and an update of one of them has then been answered 404.
NotFoundAfterDeletes ==
    /\ response = NotFound
    /\ DOMAIN table = {}
    /\ held = {1, 2}
    /\ AllIdle

\* C19: whenever the Updates step of an update request that submitted some
\* field ends in the redirect, the row it looked up is present at that step
\* and holds every submitted field after it.
RedirectedUpdateWasApplied ==
    [][\A r \in Slots :
        (UpdateUpdates(r) /\ req[r].form # FormNone /\ response' = Redirect)
        => LET id == req[r].spot.ID
               f == req[r].form
           IN  /\ id \in DOMAIN table
               /\ id \in DOMAIN table'
               /\ f.name # << >> => table'[id].Name = f.name
               /\ f.description # << >> => table'[id].Description = f.description
               /\ f.ticket # << >> => table'[id].Ticket = f.ticket
               /\ f.transport # << >> => table'[id].Transport = f.transport
               /\ f.imageurl # << >> => table'[id].ImageURL = f.imageurl]_vars

====
